---- MODULE Spec2Model ----
(***************************************************************************)
(* Buyer risk assessment engine (src/api.py).                              *)
(*                                                                         *)
(* BuyerRiskAssessor is one long-lived object (`assessor`, line 459) whose *)
(* only mutable field is REASONS, a reference to a Python list.  The POST  *)
(* handler assess_risk calls assessor.assess_buyer_risk, which rebinds     *)
(* REASONS to a new list, appends reasons to whatever list REASONS         *)
(* currently names, and returns a dict holding a reference to that list.   *)
(*                                                                         *)
(* Strings that the code only compares (addresses, reasons, actions) are   *)
(* TLA+ strings.  Names, which the code splits on whitespace, are tuples   *)
(* of one-character strings.  Money is in whole dollars.  A comparison of  *)
(* a quotient a/b*100 with a threshold k (b > 0) is written as the         *)
(* comparison of a*100 with k*b.                                           *)
(***************************************************************************)
EXTENDS Integers, Sequences, FiniteSets, TLC

VARIABLES
    lists,      \* the list objects created so far: object id -> its items
    REASONS,    \* assessor.REASONS: the id of the list the field names
    call,       \* the pending invocation: function name and arguments
    ret,        \* what the last unit invocation returned
    th,         \* per worker thread: frame of its assess_risk call
    responses,  \* the bodies assess_risk has returned, in order
    ncalls      \* number of requests received so far

vars == <<lists, REASONS, call, ret, th, responses, ncalls>>

\* bounds of the model
MaxLevels == 9      \* largest step count passed to _increase_risk
MaxCalls  == 3      \* requests received by one server
Threads   == {1, 2} \* callers sharing the engine

(***************************************************************************)
(* Risk tiers (BuyerRiskAssessor.__init__).                                *)
(***************************************************************************)
NO_RISK   == "No Risk"
VERY_LOW  == "Very Low"
LOW       == "Low"
MEDIUM    == "Medium"
HIGH      == "High"
VERY_HIGH == "Very High"

Tiers == {NO_RISK, VERY_LOW, LOW, MEDIUM, HIGH, VERY_HIGH}

\* risk_order of _increase_risk
risk_order == <<VERY_LOW, LOW, MEDIUM, HIGH, VERY_HIGH>>

Min(a, b) == IF a <= b THEN a ELSE b

\* list.index: the first position holding x, 0 when x is absent (ValueError)
index(s, x) ==
    IF \E i \in 1..Len(s) : s[i] = x
    THEN CHOOSE i \in 1..Len(s) : s[i] = x /\ \A j \in 1..(i-1) : s[j] # x
    ELSE 0

\* a mutant of _increase_risk that has no cap at the top of the ladder list
increase_risk_nocap(current_risk, levels) ==
    LET current_index == index(risk_order, current_risk) IN
    IF current_index = 0 THEN current_risk
    ELSE IF current_index + levels > Len(risk_order) THEN current_risk
    ELSE risk_order[current_index + levels]

\* BuyerRiskAssessor._increase_risk
increase_risk(current_risk, levels) ==
    LET current_index == index(risk_order, current_risk) IN
    IF current_index = 0
    THEN current_risk                       \* except ValueError
    ELSE risk_order[Min(current_index + levels, Len(risk_order))]

(***************************************************************************)
(* Python list and string helpers.                                         *)
(***************************************************************************)
\* x in lst
In(x, lst) == \E i \in 1..Len(lst) : lst[i] = x

\* A str is the tuple of its Unicode code points.  WS: the code points for
\* which str.isspace() holds, the separators of str.split()
WS == {9, 10, 11, 12, 13, 28, 29, 30, 31, 32, 133, 160, 5760}
      \cup (8192..8202) \cup {8232, 8233, 8239, 8287, 12288}

RECURSIVE splitFrom(_, _, _, _)
splitFrom(s, i, cur, acc) ==
    IF i > Len(s)
    THEN IF cur = <<>> THEN acc ELSE Append(acc, cur)
    ELSE IF s[i] \in WS
         THEN splitFrom(s, i + 1, <<>>, IF cur = <<>> THEN acc ELSE Append(acc, cur))
         ELSE splitFrom(s, i + 1, Append(cur, s[i]), acc)

\* str.split(): the maximal runs of non-whitespace characters
split(s) == splitFrom(s, 1, <<>>, <<>>)

(***************************************************************************)
(* Predicates of the engine.  A result is a record; exc names the Python   *)
(* exception that ended the call, "none" when it returned.                 *)
(***************************************************************************)
NoExc == "none"

\* [PURCHASER_NAME_FROM_APS] + [c["CO_SIGNER_NAME_FROM_APS"] for c in CO_SIGNER_LIST_FROM_APS]
aps_names(buyer_data) ==
    <<buyer_data.PURCHASER_NAME_FROM_APS>> \o
    [i \in 1..Len(buyer_data.CO_SIGNER_LIST_FROM_APS) |->
        buyer_data.CO_SIGNER_LIST_FROM_APS[i].CO_SIGNER_NAME_FROM_APS]

RECURSIVE any_cosigner_owns(_, _)
any_cosigner_owns(cosigners, i) ==
    IF i > Len(cosigners) THEN FALSE
    ELSE IF cosigners[i].CO_SIGNER_ADDRESS_LIST_FROM_LANDREGISTRY # <<>> THEN TRUE
    ELSE any_cosigner_owns(cosigners, i + 1)

\* a mutant of _check_ownership that never looks at the co-signers
check_ownership_nocosigner(buyer_data) ==
    IF buyer_data.PRIMARY_RESIDENCE_TITLE_NAMES # <<>> THEN TRUE
    ELSE buyer_data.PURCHASER_ADDRESS_LIST_FROM_LANDREGISTRY # <<>>

\* BuyerRiskAssessor._check_ownership
check_ownership(buyer_data) ==
    IF buyer_data.PRIMARY_RESIDENCE_TITLE_NAMES # <<>> THEN TRUE
    ELSE IF buyer_data.PURCHASER_ADDRESS_LIST_FROM_LANDREGISTRY # <<>> THEN TRUE
    ELSE any_cosigner_owns(buyer_data.CO_SIGNER_LIST_FROM_APS, 1)

\* BuyerRiskAssessor._has_different_addresses
has_different_addresses(buyer_data) ==
    buyer_data.PURCHASER_ADDRESS_FROM_ID # buyer_data.PURCHASER_ADDRESS_FROM_APS

\* `age and (age < 30 or age > 60)`: the integer 0 is falsy
age_risk(age) == age # 0 /\ (age < 30 \/ age > 60)

\* len(parties) != 1 or purchaser_name not in parties
deposit_by_others(buyer_data) ==
    \/ Len(buyer_data.OTHER_DEPOSIT_PAID_NAME_LIST_FROM_APS) # 1
    \/ ~In(buyer_data.PURCHASER_NAME_FROM_APS, buyer_data.OTHER_DEPOSIT_PAID_NAME_LIST_FROM_APS)

\* len(mortgage_names) > 1 or purchaser_name not in mortgage_names
mortgage_parties(buyer_data) ==
    \/ Len(buyer_data.MORTGAGE_APPROVAL_NAMES) > 1
    \/ ~In(buyer_data.PURCHASER_NAME_FROM_APS, buyer_data.MORTGAGE_APPROVAL_NAMES)

\* BuyerRiskAssessor._has_high_risk_overrides
has_high_risk_overrides(buyer_data) ==
    IF buyer_data.DISTANCE > 75 THEN TRUE
    ELSE IF deposit_by_others(buyer_data) THEN TRUE
    ELSE IF mortgage_parties(buyer_data) THEN TRUE
    ELSE IF age_risk(buyer_data.PURCHASER_AGE_FROM_ID) THEN TRUE
    ELSE IF has_different_addresses(buyer_data) THEN TRUE
    ELSE FALSE

\* BuyerRiskAssessor._is_buyer_on_primary_residence_title
is_buyer_on_primary_residence_title(buyer_data) ==
    In(buyer_data.PURCHASER_NAME_FROM_APS, buyer_data.PRIMARY_RESIDENCE_TITLE_NAMES)

\* the generator of _has_related_parties_not_on_aps, consumed by any():
\* name.split()[-1] raises IndexError on a name without a token
RECURSIVE any_related(_, _, _, _)
any_related(owner_names, i, purchaser_last_name, known) ==
    IF i > Len(owner_names) THEN [exc |-> NoExc, val |-> FALSE]
    ELSE LET toks == split(owner_names[i]) IN
         IF toks = <<>> THEN [exc |-> "IndexError", val |-> FALSE]
         ELSE IF toks[Len(toks)] = purchaser_last_name /\ ~In(owner_names[i], known)
              THEN [exc |-> NoExc, val |-> TRUE]
              ELSE any_related(owner_names, i + 1, purchaser_last_name, known)

\* BuyerRiskAssessor._has_related_parties_not_on_aps
has_related_parties_not_on_aps(buyer_data) ==
    LET toks == split(buyer_data.PURCHASER_NAME_FROM_APS) IN
    IF toks = <<>>
    THEN [exc |-> "IndexError", val |-> FALSE]      \* "".split()[-1]
    ELSE any_related(buyer_data.PRIMARY_RESIDENCE_TITLE_NAMES, 1,
                     toks[Len(toks)], aps_names(buyer_data))

\* BuyerRiskAssessor._is_missing_coowner_on_aps
is_missing_coowner_on_aps(buyer_data) ==
    \E i \in 1..Len(buyer_data.PRIMARY_RESIDENCE_TITLE_NAMES) :
        ~In(buyer_data.PRIMARY_RESIDENCE_TITLE_NAMES[i], aps_names(buyer_data))

\* (num / price) * 100 if price > 0 else 0, compared with k
pct_gt(num, price, k) == IF price > 0 THEN num * 100 > k * price ELSE 0 > k
pct_lt(num, price, k) == IF price > 0 THEN num * 100 < k * price ELSE 0 < k

(***************************************************************************)
(* Branch evaluators.  A frame holds the locals of a call (risk_level,     *)
(* actions), the reasons the call has appended to REASONS so far, and the  *)
(* exception that ended it ("none" while it runs).  Each statement of the  *)
(* code maps the frame before it to the frame after it.                    *)
(***************************************************************************)
Frame(risk_level) ==
    [exc |-> NoExc, risk_level |-> risk_level, actions |-> <<>>, appended |-> <<>>]

\* a mutant of the price tier checks whose first band tests deposit_pct >= 25
price_tier_ge(price, deposit) ==
    IF price < 800000
    THEN IF ~pct_lt(deposit, price, 25) THEN LOW
         ELSE IF pct_gt(deposit, price, 15) THEN MEDIUM
         ELSE NO_RISK
    ELSE IF pct_gt(deposit, price, IF price <= 1000000 THEN 20 ELSE 25)
    THEN MEDIUM ELSE NO_RISK

\* the price tier checks of _assess_non_homeowner (conditions 1-4), applied
\* to the initial risk_level NO_RISK
price_tier(price, deposit) ==
    IF price < 800000
    THEN IF pct_gt(deposit, price, 25) THEN LOW
         ELSE IF pct_gt(deposit, price, 15) THEN MEDIUM
         ELSE NO_RISK
    ELSE IF 800000 <= price /\ price <= 1000000
    THEN IF pct_gt(deposit, price, 20) THEN MEDIUM ELSE NO_RISK
    ELSE IF 1000000 < price /\ price <= 1500000
    THEN IF pct_gt(deposit, price, 25) THEN MEDIUM ELSE NO_RISK
    ELSE IF price > 1500000
    THEN IF pct_gt(deposit, price, 25) THEN MEDIUM ELSE NO_RISK
    ELSE NO_RISK

\* override conditions
non_owner_overrides(buyer_data, st) ==
    IF has_high_risk_overrides(buyer_data) THEN [st EXCEPT !.risk_level = HIGH] ELSE st

\* related parties check of the non-owner branch
non_owner_related(buyer_data, related, st) ==
    IF related
    THEN [st EXCEPT
            !.risk_level = IF buyer_data.PROPERTY_PRICE > 1000000
                           THEN increase_risk(increase_risk(@, 1), 2)
                           ELSE increase_risk(@, 1),
            !.actions = Append(@, "Add related parties to APS")]
    ELSE st

\* young buyer check
young_buyer(buyer_data, st) ==
    IF buyer_data.PURCHASER_AGE_FROM_ID < 30
       /\ ~is_buyer_on_primary_residence_title(buyer_data)
    THEN [st EXCEPT !.actions = Append(@, "Request to add co-signers")]
    ELSE st

add_action(st, action) == [st EXCEPT !.actions = Append(@, action)]

\* BuyerRiskAssessor._assess_non_homeowner
assess_non_homeowner(buyer_data) ==
    LET st2 == non_owner_overrides(buyer_data,
                   Frame(price_tier(buyer_data.PROPERTY_PRICE,
                                    buyer_data.PURCHASER_DEPOSIT_PAID_FROM_APS)))
        rel == has_related_parties_not_on_aps(buyer_data)
    IN  IF rel.exc # NoExc
        THEN [st2 EXCEPT !.exc = rel.exc]
        ELSE add_action(young_buyer(buyer_data,
                                    non_owner_related(buyer_data, rel.val, st2)),
                        "Request 25% downpayment proof")

\* the home value to price ratio rule of _assess_homeowner
value_ratio_tier(price, home_value) ==
    IF 4 * home_value >= 3 * price THEN LOW              \* home_value >= 0.75 * price
    ELSE IF 3 * price <= 5 * home_value THEN MEDIUM      \* 0.6 * price <= home_value
    ELSE HIGH

\* a mutant of the equity checks whose low-equity rule escalates one step
equity_checks_step(st, equity, price) ==
    IF pct_lt(equity, price, 5)
    THEN [st EXCEPT !.risk_level = VERY_HIGH,
                    !.appended = Append(@, "Very low equity (<5%)")]
    ELSE IF pct_lt(equity, price, 15)
    THEN [st EXCEPT !.risk_level = increase_risk(@, 1),
                    !.appended = Append(@, "Low equity (5-15%)")]
    ELSE IF pct_lt(equity, price, 25)
    THEN [st EXCEPT !.risk_level = increase_risk(@, 1),
                    !.appended = Append(@, "Moderate equity (15-25%)")]
    ELSE st

\* the equity checks of _assess_homeowner
equity_checks(st, equity, price) ==
    IF pct_lt(equity, price, 5)
    THEN [st EXCEPT !.risk_level = VERY_HIGH,
                    !.appended = Append(@, "Very low equity (<5%)")]
    ELSE IF pct_lt(equity, price, 15)
    THEN [st EXCEPT !.risk_level = increase_risk(@, 2),
                    !.appended = Append(@, "Low equity (5-15%)")]
    ELSE IF pct_lt(equity, price, 25)
    THEN [st EXCEPT !.risk_level = increase_risk(@, 1),
                    !.appended = Append(@, "Moderate equity (15-25%)")]
    ELSE st

\* related parties check of the owner branch
owner_related(related, st) ==
    IF related
    THEN [st EXCEPT !.risk_level = increase_risk(increase_risk(@, 1), 2),
                    !.appended = Append(@, "Same last name different addresses."),
                    !.actions = Append(@, "Add related parties to APS")]
    ELSE st

\* missing co-owner check
missing_coowner(buyer_data, st) ==
    IF is_missing_coowner_on_aps(buyer_data)
    THEN [st EXCEPT !.risk_level = increase_risk(@, 2),
                    !.appended = Append(@, "Missing co-owner on APS")]
    ELSE st

\* BuyerRiskAssessor._assess_homeowner
assess_homeowner(buyer_data) ==
    LET st2 == equity_checks(
                   Frame(value_ratio_tier(buyer_data.PROPERTY_PRICE,
                                          buyer_data.PRIMARY_RESIDENCE_VALUE_FROM_AVM)),
                   buyer_data.PRIMARY_RESIDENCE_EQUITY, buyer_data.PROPERTY_PRICE)
        rel == has_related_parties_not_on_aps(buyer_data)
    IN  IF rel.exc # NoExc
        THEN [st2 EXCEPT !.exc = rel.exc]
        ELSE add_action(missing_coowner(buyer_data, owner_related(rel.val, st2)),
                        "Verify property ownership and equity")

(***************************************************************************)
(* General rule pass: one operator per `if` statement.                     *)
(***************************************************************************)
force(st, reason) ==
    [st EXCEPT !.risk_level = VERY_HIGH, !.appended = Append(@, reason)]

escalate(st, reason) ==
    [st EXCEPT !.risk_level = increase_risk(@, 1), !.appended = Append(@, reason)]

check_name_id_aps(buyer_data, st) ==
    IF buyer_data.PURCHASER_NAME_FROM_APS # buyer_data.PURCHASER_NAME_FROM_ID
    THEN force(st, "Name mismatch between ID and APS") ELSE st

check_name_aps_housesigma(buyer_data, st) ==
    IF buyer_data.PURCHASER_NAME_FROM_APS # buyer_data.PURCHASER_NAME_FROM_HOUSESIGMA
    THEN force(st, "Name mismatch between APS and HOUSESIGMA") ELSE st

check_name_id_housesigma(buyer_data, st) ==
    IF buyer_data.PURCHASER_NAME_FROM_ID # buyer_data.PURCHASER_NAME_FROM_HOUSESIGMA
    THEN force(st, "Name mismatch between ID and HOUSESIGMA") ELSE st

\* a mutant of the address consistency check that records the reason only
check_address_id_aps_noforce(buyer_data, st) ==
    IF buyer_data.PURCHASER_ADDRESS_FROM_ID # buyer_data.PURCHASER_ADDRESS_FROM_APS
    THEN [st EXCEPT !.appended = Append(@, "Address mismatch between ID and APS")]
    ELSE st

check_address_id_aps(buyer_data, st) ==
    IF buyer_data.PURCHASER_ADDRESS_FROM_ID # buyer_data.PURCHASER_ADDRESS_FROM_APS
    THEN force(st, "Address mismatch between ID and APS") ELSE st

\* a mutant of the land registry check that is skipped on an empty list
check_address_landregistry_nonempty(buyer_data, st) ==
    IF buyer_data.PURCHASER_ADDRESS_LIST_FROM_LANDREGISTRY # <<>>
       /\ ~In(buyer_data.PURCHASER_ADDRESS_FROM_APS,
              buyer_data.PURCHASER_ADDRESS_LIST_FROM_LANDREGISTRY)
    THEN force(st, "Address mismatch APS and LAND REGISTRY")
    ELSE st

check_address_landregistry(buyer_data, st) ==
    IF ~In(buyer_data.PURCHASER_ADDRESS_FROM_APS,
           buyer_data.PURCHASER_ADDRESS_LIST_FROM_LANDREGISTRY)
    THEN IF buyer_data.PURCHASER_ADDRESS_LIST_FROM_LANDREGISTRY # <<>>
         THEN force(st, "Address mismatch APS and LAND REGISTRY")
         ELSE force(st, "Address in APS not found in LAND REGISTRY - empty")
    ELSE st

check_distance(buyer_data, st) ==
    IF buyer_data.DISTANCE > 75
    THEN escalate(st, "Long distance (>75km)") ELSE st

check_deposit_by_others(buyer_data, st) ==
    IF deposit_by_others(buyer_data)
    THEN force(st, "Deposit paid by others") ELSE st

check_mortgage_parties(buyer_data, st) ==
    IF mortgage_parties(buyer_data)
    THEN escalate(st, "Multiple mortgage parties") ELSE st

\* a mutant of the age check that sets the tier to High instead of escalating
check_age_set(buyer_data, st) ==
    IF age_risk(buyer_data.PURCHASER_AGE_FROM_ID)
    THEN [st EXCEPT
            !.risk_level = HIGH,
            !.appended = Append(@, "Age risk ("
                \o ToString(buyer_data.PURCHASER_AGE_FROM_ID) \o " years)")]
    ELSE st

check_age(buyer_data, st) ==
    IF age_risk(buyer_data.PURCHASER_AGE_FROM_ID)
    THEN escalate(st, "Age risk (" \o ToString(buyer_data.PURCHASER_AGE_FROM_ID) \o " years)")
    ELSE st

check_multiple_properties(buyer_data, st) ==
    IF Len(buyer_data.PURCHASER_ALL_PROPERTIES_VALUE_FROM_AVM) > 1
    THEN escalate(st, "Multiple property ownership") ELSE st

\* BuyerRiskAssessor._apply_general_checks on the frame st, whose risk_level
\* is the argument current_risk; the risk_level of the result is returned
apply_general_checks(buyer_data, st) ==
    check_multiple_properties(buyer_data,
     check_age(buyer_data,
      check_mortgage_parties(buyer_data,
       check_deposit_by_others(buyer_data,
        check_distance(buyer_data,
         check_address_landregistry(buyer_data,
          check_address_id_aps(buyer_data,
           check_name_id_housesigma(buyer_data,
            check_name_aps_housesigma(buyer_data,
             check_name_id_aps(buyer_data, st))))))))))

(***************************************************************************)
(* Risk factor reporter.                                                   *)
(***************************************************************************)
Abs(n) == IF n < 0 THEN -n ELSE n

(***************************************************************************)
(* home_value / price and deposit / price * 100 are binary64 operations on *)
(* amounts that are whole numbers: the numerator below 2^30 in absolute    *)
(* value, the price below 2^24.  float_div and float_mul100 give the       *)
(* correctly rounded results, fixed1 and repr their Python formatting.     *)
(***************************************************************************)
\* Naturals of any size are tuples of limbs below Base, the least significant
\* first, without a leading zero limb.
Base == 10000

trim(x) ==
    IF \A i \in 1..Len(x) : x[i] = 0 THEN <<>>
    ELSE SubSeq(x, 1, CHOOSE n \in 1..Len(x) : x[n] # 0 /\ \A i \in (n + 1)..Len(x) : x[i] = 0)

RECURSIVE carry(_, _, _, _)
carry(cols, i, c, out) ==
    IF i > Len(cols)
    THEN IF c = 0 THEN out ELSE carry(cols, i, c \div Base, Append(out, c % Base))
    ELSE carry(cols, i + 1, (cols[i] + c) \div Base, Append(out, (cols[i] + c) % Base))

big(n) == trim(carry(<<n>>, 1, 0, <<>>))

\* x * k + d for a small k and d
muladd(x, k, d) ==
    trim(carry([i \in 1..Len(x) |-> x[i] * k], 1, d, <<>>))

RECURSIVE column(_, _, _, _)
column(x, y, k, i) ==
    IF i > Min(Len(x), k) THEN 0
    ELSE (IF k + 1 - i <= Len(y) THEN x[i] * y[k + 1 - i] ELSE 0) + column(x, y, k, i + 1)

mul(x, y) ==
    IF x = <<>> \/ y = <<>> THEN <<>>
    ELSE trim(carry([k \in 1..(Len(x) + Len(y) - 1) |-> column(x, y, k, 1)], 1, 0, <<>>))

RECURSIVE divmod(_, _, _, _, _)
\* long division of x by a small k, from the most significant limb
divmod(x, k, i, r, q) ==
    IF i = 0 THEN [q |-> trim(q), r |-> r]
    ELSE divmod(x, k, i - 1, (r * Base + x[i]) % k, <<(r * Base + x[i]) \div k>> \o q)

\* -1, 0, 1 as x is below, equal to, above y
cmp(x, y) ==
    IF Len(x) # Len(y) THEN (IF Len(x) < Len(y) THEN -1 ELSE 1)
    ELSE IF x = y THEN 0
    ELSE LET n == CHOOSE n \in 1..Len(x) : x[n] # y[n] /\ \A i \in (n + 1)..Len(x) : x[i] = y[i]
         IN  IF x[n] < y[n] THEN -1 ELSE 1

RECURSIVE pow5(_)
pow5(n) == IF n = 0 THEN <<1>> ELSE IF n >= 7 THEN muladd(pow5(n - 7), 78125, 0)
           ELSE muladd(pow5(n - 1), 5, 0)

TwoTo52 == <<496, 2737, 5996, 4503>>
TwoTo53 == <<992, 5474, 1992, 9007>>
TwoTo59 == <<3488, 342, 7523, 6460, 57>>

bitlen(x) == CHOOSE n \in 1..30 : 2^(n - 1) <= x /\ (n = 30 \/ x < 2^n)

\* floor(log2(a / b))
log2floor(a, b) ==
    LET la == bitlen(a)
        lb == bitlen(b)
    IN  IF la >= lb
        THEN IF a >= b * 2^(la - lb) THEN la - lb ELSE la - lb - 1
        ELSE IF a * 2^(lb - la) >= b THEN la - lb ELSE la - lb - 1

RECURSIVE quotient(_, _, _, _)
\* floor(a * 2^left / b) and whether the division left a remainder, k bits at a time
quotient(q, r, b, left) ==
    IF left = 0 THEN [q |-> q, inexact |-> r # 0]
    ELSE LET k == Min(left, Min(17, 30 - bitlen(b)))
         IN  CHOOSE res \in {quotient(p[1], p[2], b, left - k) :
                             p \in {<<muladd(q, 2^k, (r * 2^k) \div b), (r * 2^k) % b>>}} : TRUE

\* round to nearest, ties to even, of n / 2^bits (+ something below one unit when inexact);
\* the result [m, e] stands for m * 2^e with 2^52 <= m < 2^53
round53(n, bits, inexact, e) ==
    LET d == divmod(n, 2^bits, Len(n), 0, <<>>)
        up == \/ 2 * d.r > 2^bits
              \/ 2 * d.r = 2^bits /\ (inexact \/ (d.q[1] % 2 = 1))
        m == IF up THEN muladd(d.q, 1, 1) ELSE d.q
    IN  IF m = TwoTo53 THEN [m |-> TwoTo52, e |-> e + bits + 1]
        ELSE [m |-> m, e |-> e + bits]

\* the binary64 quotient a / b of two positive integers
float_div(a, b) ==
    LET s == 53 - log2floor(a, b)
        n == quotient(big(a \div b), a % b, b, s)
    IN  round53(n.q, 1, n.inexact, -s)

\* the binary64 product x * 100
float_mul100(x) ==
    LET p == muladd(x.m, 100, 0)
    IN  round53(p, IF cmp(p, TwoTo59) < 0 THEN 6 ELSE 7, FALSE, x.e)

pct(a, b) == float_mul100(float_div(a, b))

\* Decimal expansions are tuples of digits, the most significant first.
zeros(n) == [i \in 1..n |-> 0]

strip(d) ==
    IF \A i \in 1..Len(d) : d[i] = 0 THEN <<>>
    ELSE SubSeq(d, CHOOSE n \in 1..Len(d) : d[n] # 0 /\ \A i \in 1..(n - 1) : d[i] = 0, Len(d))

rstrip(d) ==
    IF \A i \in 1..Len(d) : d[i] = 0 THEN <<>>
    ELSE SubSeq(d, 1, CHOOSE n \in 1..Len(d) : d[n] # 0 /\ \A i \in (n + 1)..Len(d) : d[i] = 0)

digits(x) ==
    strip([i \in 1..(4 * Len(x)) |->
              (x[Len(x) - ((i - 1) \div 4)] \div 10^(3 - ((i - 1) % 4))) % 10])

\* -1, 0, 1 as the number d is below, equal to, above the number c
dcmp(d, c) ==
    LET x == strip(d)
        y == strip(c)
    IN  IF Len(x) # Len(y) THEN (IF Len(x) < Len(y) THEN -1 ELSE 1)
        ELSE IF x = y THEN 0
        ELSE LET n == CHOOSE n \in 1..Len(x) : x[n] # y[n] /\ \A i \in 1..(n - 1) : x[i] = y[i]
             IN  IF x[n] < y[n] THEN -1 ELSE 1

\* d + 1 in the last place
incr(d) ==
    IF \A i \in 1..Len(d) : d[i] = 9 THEN <<1>> \o zeros(Len(d))
    ELSE LET j == CHOOSE n \in 1..Len(d) : d[n] # 9 /\ \A i \in (n + 1)..Len(d) : d[i] = 9
         IN  [i \in 1..Len(d) |-> IF i < j THEN d[i] ELSE IF i = j THEN d[j] + 1 ELSE 0]

\* 10^Len(d) - d
complement(d) ==
    IF strip(d) = <<>> THEN <<1>> \o d
    ELSE LET j == CHOOSE n \in 1..Len(d) : d[n] # 0 /\ \A i \in (n + 1)..Len(d) : d[i] = 0
         IN  [i \in 1..Len(d) |-> IF i < j THEN 9 - d[i] ELSE IF i = j THEN 10 - d[j] ELSE 0]

RECURSIVE str(_)
str(d) == IF d = <<>> THEN "" ELSE ToString(d[1]) \o str(Tail(d))

\* the exact decimal expansion of x = m * 2^e, e < 0, as m * 5^(-e) / 10^(-e):
\* d holds the digits, the last `frac` of them after the point
decimal(x) == [d |-> digits(mul(x.m, pow5(-x.e))), frac |-> -x.e]

\* format code f with precision 1 applied to the expansion dec: the exact
\* value rounded to one decimal, ties to even
round1(dec) ==
    LET d == zeros(dec.frac + 1 - Len(dec.d)) \o dec.d
        keep == Len(d) - dec.frac + 1
        up == /\ Len(d) > keep
              /\ \/ d[keep + 1] > 5
                 \/ d[keep + 1] = 5 /\ (d[keep] % 2 = 1 \/ \E i \in (keep + 2)..Len(d) : d[i] # 0)
    IN  IF up THEN incr(SubSeq(d, 1, keep)) ELSE SubSeq(d, 1, keep)

fixed1(x) ==
    CHOOSE s \in {str(SubSeq(r, 1, Len(r) - 1)) \o "." \o ToString(r[Len(r)]) :
                  r \in {round1(decimal(x))}} : TRUE

\* What the shortest-digits conversion compares, in units of 10^(e - 2):
\* the value A of x = m * 2^e, and the distances lo and hi to the middle of
\* the gap to the float below and above (the gap below a power of two is
\* half as wide); even: the float read back from such a middle is x
neighbours(m, e, p5) ==
    [A |-> digits(mul(m, p5)) \o <<0, 0>>,
     hi |-> digits(muladd(p5, 5, 0)) \o <<0>>,
     lo |-> IF m = TwoTo52 THEN digits(muladd(p5, 25, 0)) ELSE digits(muladd(p5, 5, 0)) \o <<0>>,
     even |-> m[1] % 2 = 0,
     e |-> e]

\* the first n digits of A as they stand (n digits kept, the rest cut off):
\* whether the float read back from them, or from them plus one in the last
\* place, is x, and which of the two is nearer
cut(b, n, tail, comp) ==
    [n |-> n,
     lowOK |-> dcmp(tail, b.lo) < 0 \/ (b.even /\ dcmp(tail, b.lo) = 0),
     highOK |-> dcmp(comp, b.hi) < 0,
     highEq |-> b.even /\ dcmp(comp, b.hi) = 0,
     nearer |-> dcmp(tail, comp) > 0 \/ (dcmp(tail, comp) = 0 /\ b.A[n] % 2 = 1)]

cut_at(b, n) ==
    CHOOSE c \in {cut(b, n, t, complement(t)) : t \in {SubSeq(b.A, n + 1, Len(b.A))}} : TRUE

\* whether the first n digits of A, or they plus one in the last place, read
\* back as x; a tail of more than Len(hi) digits is within reach of neither
\* unless it starts with 0 or with 9
reads_back(b, n) ==
    /\ n >= Len(b.A) - Len(b.hi) \/ b.A[n + 1] \in {0, 9}
    /\ cut_at(b, n).lowOK \/ cut_at(b, n).highOK \/ cut_at(b, n).highEq

\* the shortest prefix that reads back as x
shortest_cut(b) ==
    cut_at(b, CHOOSE n \in 1..Len(b.A) :
                  reads_back(b, n) /\ \A k \in 1..(n - 1) : ~reads_back(b, k))

shortest_digits(b, c) ==
    LET up == IF c.lowOK THEN c.highOK /\ c.nearer ELSE TRUE
        r == IF up THEN incr(SubSeq(b.A, 1, c.n)) ELSE SubSeq(b.A, 1, c.n)
    IN  [d |-> rstrip(r), point |-> Len(b.A) + b.e - 2 + (Len(r) - c.n)]

\* the shortest digits that read back as x (repr): [d, point], the value
\* being 0.d1d2... * 10^point
shortest(x) ==
    CHOOSE s \in {shortest_digits(b, shortest_cut(b)) :
                  b \in {neighbours(x.m, x.e, pow5(-x.e))}} : TRUE

\* float.__repr__ of a positive float
repr_digits(s) ==
    LET nd == Len(s.d)
        ex == s.point - 1
    IN  IF s.point <= -4 \/ s.point > 16
        THEN str(<<s.d[1]>>) \o (IF nd > 1 THEN "." \o str(Tail(s.d)) ELSE "")
             \o (IF ex < 0 THEN "e-" ELSE "e+")
             \o (IF Abs(ex) < 10 THEN "0" ELSE "") \o ToString(Abs(ex))
        ELSE IF s.point <= 0 THEN "0." \o str(zeros(-s.point)) \o str(s.d)
        ELSE IF s.point >= nd THEN str(s.d) \o str(zeros(s.point - nd)) \o ".0"
        ELSE str(SubSeq(s.d, 1, s.point)) \o "." \o str(SubSeq(s.d, s.point + 1, nd))

repr(x) == CHOOSE t \in {repr_digits(s) : s \in {shortest(x)}} : TRUE

negative(num, den) == (num < 0 /\ den > 0) \/ (num >= 0 /\ den < 0)

\* f"{num/den:.1%}"
fmt_pct1(num, den) ==
    (IF negative(num, den) THEN "-" ELSE "")
    \o (IF num = 0 THEN "0.0" ELSE fixed1(pct(Abs(num), Abs(den)))) \o "%"

\* f"{float(num / den * 100)}"
fmt_deposit_pct(num, den) ==
    (IF negative(num, den) THEN "-" ELSE "")
    \o (IF num = 0 THEN "0.0" ELSE repr(pct(Abs(num), Abs(den))))

\* float.__repr__ of a float that is a whole number below 10^16
repr_whole(n) == ToString(n) \o ".0"

\* BuyerRiskAssessor._get_risk_factors when PROPERTY_PRICE is not 0
risk_factors(buyer_data) ==
    (IF ~check_ownership(buyer_data)
     THEN <<"First-time homebuyer">> ELSE <<"Existing property owner">>)
    \o <<"Home value to price ratio: "
           \o fmt_pct1(buyer_data.PRIMARY_RESIDENCE_VALUE_FROM_AVM, buyer_data.PROPERTY_PRICE),
         "Deposit:"
           \o fmt_deposit_pct(buyer_data.PURCHASER_DEPOSIT_PAID_FROM_APS,
                              buyer_data.PROPERTY_PRICE)>>
    \o (IF buyer_data.DISTANCE > 75
        THEN <<"Long distance (" \o repr_whole(buyer_data.DISTANCE) \o "km)">> ELSE <<>>)
    \o (IF age_risk(buyer_data.PURCHASER_AGE_FROM_ID)
        THEN <<"Age risk factor (" \o ToString(buyer_data.PURCHASER_AGE_FROM_ID) \o " years)">>
        ELSE <<>>)

\* BuyerRiskAssessor._get_risk_factors: home_value / price raises
\* ZeroDivisionError when the price is 0
get_risk_factors(buyer_data) ==
    IF buyer_data.PROPERTY_PRICE = 0
    THEN [exc |-> "ZeroDivisionError", factors |-> <<>>]
    ELSE [exc |-> NoExc, factors |-> risk_factors(buyer_data)]

(***************************************************************************)
(* BuyerRiskAssessor.assess_buyer_risk, after its `self.REASONS = []`:     *)
(* the verdict, the exception that ended the call if any, and the reasons  *)
(* the call appends to REASONS before it returns or raises.                *)
(***************************************************************************)
\* lines 105-108
branch(buyer_data) ==
    IF ~check_ownership(buyer_data)
    THEN assess_non_homeowner(buyer_data)
    ELSE assess_homeowner(buyer_data)

\* line 111, not reached when the branch raised
general_checks(buyer_data, st) ==
    IF st.exc # NoExc THEN st ELSE apply_general_checks(buyer_data, st)

\* lines 113-118
result(buyer_data, st) ==
    IF st.exc # NoExc
    THEN [exc |-> st.exc, risk_level |-> st.risk_level, suggested_actions |-> <<>>,
          risk_factors |-> <<>>, appended |-> st.appended]
    ELSE CHOOSE r \in
           {[exc |-> f.exc, risk_level |-> st.risk_level,
             suggested_actions |-> IF f.exc # NoExc THEN <<>> ELSE st.actions,
             risk_factors |-> f.factors,
             appended |-> st.appended] : f \in {get_risk_factors(buyer_data)}} : TRUE

assess_buyer_risk(buyer_data) ==
    result(buyer_data, general_checks(buyer_data, branch(buyer_data)))

(***************************************************************************)
(* The engine object and the POST /assess-risk handler.                    *)
(***************************************************************************)
\* a mutant of the reset that empties the list in place (REASONS.clear())
reset_reasons_clear(eng) ==
    [lists |-> [eng.lists EXCEPT ![eng.REASONS] = <<>>], REASONS |-> eng.REASONS]

\* `self.REASONS = []`: the field is bound to a newly created list
reset_reasons(eng) ==
    [lists |-> Append(eng.lists, <<>>), REASONS |-> Len(eng.lists) + 1]

\* `self.REASONS.append(reason)`: the list the field names now is extended
append_reason(eng, reason) ==
    [eng EXCEPT !.lists[eng.REASONS] = Append(@, reason)]

\* the appends of one whole call, none of another caller in between
append_all(eng, reasons) ==
    [eng EXCEPT !.lists[eng.REASONS] = @ \o reasons]

\* str(e) of the exception the handler catches
error_message(exc) ==
    IF exc = "ZeroDivisionError" THEN "float division by zero"
    ELSE "list index out of range"

\* the dict assess_risk returns: "risk_assessment" or "error" is absent
\* (<<>>) according to success; reasons is the id of the list REASONS
\* names when assess_buyer_risk builds its result
response_body(r, ref) ==
    IF r.exc = NoExc
    THEN [success |-> TRUE,
          risk_assessment |-> <<[risk_level |-> r.risk_level,
                                 suggested_actions |-> r.suggested_actions,
                                 risk_factors |-> r.risk_factors,
                                 reasons |-> ref]>>,
          error |-> <<>>]
    ELSE [success |-> FALSE, risk_assessment |-> <<>>, error |-> <<error_message(r.exc)>>]

\* one whole run of assess_risk on the engine eng: the engine afterwards
\* and the body returned
run_assess_risk(eng, buyer_data) ==
    LET r  == assess_buyer_risk(buyer_data)
        e2 == append_all(reset_reasons(eng), r.appended)
    IN  [eng |-> e2, body |-> response_body(r, e2.REASONS)]

\* `assessor = BuyerRiskAssessor()`
InitEngine == [lists |-> << <<>> >>, REASONS |-> 1]

Engine == [lists |-> lists, REASONS |-> REASONS]

\* what a client reads in a body: the reasons list behind the reference
view(body, heap) ==
    IF body.success
    THEN [body EXCEPT !.risk_assessment[1].reasons = heap[@]]
    ELSE body

(***************************************************************************)
(* Inputs: profiles as BuyerData.dict() hands them to the engine.  Names   *)
(* are tuples of code points; the float fields hold whole numbers.         *)
(***************************************************************************)
\* "j s", "m s", "m d", "", " "
JS    == <<106, 32, 115>>
MS    == <<109, 32, 115>>
MD    == <<109, 32, 100>>
EMPTY == <<>>
BLANK == <<32>>
\* "j\ts" (TAB between the names) and "\t\u2003" (TAB, EM SPACE: no name)
JTS   == <<106, 9, 115>>
TABS  == <<9, 8195>>

\* the fields of CoSigner the engine reads
C_MD == [CO_SIGNER_NAME_FROM_APS |-> MD, CO_SIGNER_ADDRESS_LIST_FROM_LANDREGISTRY |-> <<>>]
C_MS == [CO_SIGNER_NAME_FROM_APS |-> MS, CO_SIGNER_ADDRESS_LIST_FROM_LANDREGISTRY |-> <<"B">>]

\* the fields of BuyerData the engine reads, each drawn from D's set
Profiles(D) ==
    [PURCHASER_NAME_FROM_APS : D.name_aps,
     PURCHASER_NAME_FROM_ID : D.name_id,
     PURCHASER_NAME_FROM_HOUSESIGMA : D.name_hs,
     PURCHASER_ADDRESS_FROM_APS : D.addr_aps,
     PURCHASER_ADDRESS_FROM_ID : D.addr_id,
     PURCHASER_ADDRESS_LIST_FROM_LANDREGISTRY : D.landregistry,
     PURCHASER_AGE_FROM_ID : D.age,
     PURCHASER_ALL_PROPERTIES_VALUE_FROM_AVM : D.all_values,
     PURCHASER_DEPOSIT_PAID_FROM_APS : D.deposit,
     CO_SIGNER_LIST_FROM_APS : D.cosigners,
     DISTANCE : D.distance,
     PRIMARY_RESIDENCE_VALUE_FROM_AVM : D.home_value,
     PRIMARY_RESIDENCE_EQUITY : D.equity,
     PRIMARY_RESIDENCE_TITLE_NAMES : D.title_names,
     PROPERTY_PRICE : D.price,
     OTHER_DEPOSIT_PAID_NAME_LIST_FROM_APS : D.deposit_names,
     MORTGAGE_APPROVAL_NAMES : D.mortgage_names]

\* a consistent owner: every rule of the engine is silent on it
One ==
    [name_aps |-> {JS}, name_id |-> {JS}, name_hs |-> {JS},
     addr_aps |-> {"A"}, addr_id |-> {"A"}, landregistry |-> {<<"A">>},
     age |-> {40}, all_values |-> {<<750000>>}, deposit |-> {200000},
     cosigners |-> {<<>>}, distance |-> {50}, home_value |-> {650000},
     equity |-> {300000}, title_names |-> {<<JS>>}, price |-> {800000},
     deposit_names |-> {<<JS>>}, mortgage_names |-> {<<JS>>}]

\* _increase_risk
LadderCalls == [fn : {"_increase_risk"}, current_risk : Tiers, levels : 0..MaxLevels]

\* _assess_non_homeowner: buyers without title, land registry entry or owning co-signer
NonOwnerProfiles ==
    Profiles([One EXCEPT
        !.title_names = {<<>>}, !.landregistry = {<<>>},
        !.cosigners = {<<>>, <<C_MD>>},
        !.name_aps = {JS, EMPTY},
        !.price = {-1, 0, 700000, 800000, 1000000, 1200000, 1500000, 1600000},
        !.deposit = {50000, 105000, 160000, 175000, 200000, 250000, 300000, 500000},
        !.distance = {50, 76}, !.age = {0, 25, 40}, !.addr_id = {"A", "B"},
        !.deposit_names = {<<JS>>, <<MS>>}, !.mortgage_names = {<<JS>>, <<>>}])

\* _assess_homeowner
OwnerProfiles ==
    Profiles([One EXCEPT
        !.title_names = {<<>>, <<JS>>, <<MS>>, <<JS, MD>>, <<BLANK, MS>>},
        !.cosigners = {<<>>, <<C_MD>>, <<C_MD, C_MS>>},
        !.name_aps = {JS, JTS, EMPTY},
        !.price = {-1, 0, 800000, 1000000, 1200000},
        !.home_value = {400000, 480000, 600000, 650000, 900000},
        !.equity = {0, 39999, 40000, 50000, 120000, 150000, 200000, 300000}])

\* _apply_general_checks
GeneralProfiles ==
    Profiles([One EXCEPT
        !.name_id = {JS, MS}, !.name_hs = {JS, EMPTY},
        !.addr_id = {"A", "B"}, !.landregistry = {<<>>, <<"A">>, <<"B">>},
        !.distance = {75, 76},
        !.deposit_names = {<<JS>>, <<>>, <<JS, MS>>},
        !.mortgage_names = {<<JS>>, <<MS>>, <<JS, MS>>},
        !.age = {0, 29, 30, 60, 61},
        !.all_values = {<<>>, <<750000>>, <<750000, 300000>>}])

\* assess_risk, one request
EvalProfiles ==
    Profiles([One EXCEPT
        !.name_aps = {JS, EMPTY}, !.name_id = {JS, MS}, !.name_hs = {JS, EMPTY},
        !.addr_id = {"A", "B"}, !.landregistry = {<<>>, <<"A">>, <<"B">>},
        !.age = {25, 40}, !.distance = {50, 76},
        !.cosigners = {<<>>, <<C_MD>>, <<C_MD, C_MS>>},
        !.equity = {50000, 300000},
        !.title_names = {<<>>, <<JS>>, <<MS>>, <<TABS>>},
        !.price = {0, 700000, 1200000},
        !.all_values = {<<750000>>, <<750000, 300000>>},
        !.mortgage_names = {<<JS>>, <<JS, MS>>},
        !.deposit_names = {<<JS>>, <<>>}])

\* assess_risk, requests to the long-lived engine
P_owner    == CHOOSE p \in Profiles(One) : TRUE
P_lowequity == [P_owner EXCEPT !.PRIMARY_RESIDENCE_EQUITY = 50000, !.DISTANCE = 76]
P_first    == [P_owner EXCEPT !.PRIMARY_RESIDENCE_TITLE_NAMES = <<>>,
                              !.PURCHASER_ADDRESS_LIST_FROM_LANDREGISTRY = <<>>,
                              !.PURCHASER_AGE_FROM_ID = 25]
P_zero     == [P_lowequity EXCEPT !.PROPERTY_PRICE = 0]
P_noname   == [P_lowequity EXCEPT !.PURCHASER_NAME_FROM_APS = EMPTY]

ServedProfiles == {P_owner, P_lowequity, P_first, P_zero, P_noname}

(***************************************************************************)
(* Unit invocations: call holds the function and its arguments, ret the    *)
(* value returned.                                                         *)
(***************************************************************************)
Idle == [pc |-> "idle", args |-> <<>>, k |-> 0]

InitCommon ==
    /\ lists = InitEngine.lists
    /\ REASONS = InitEngine.REASONS
    /\ ret = <<>>
    /\ th = [t \in Threads |-> Idle]
    /\ responses = <<>>

Pending(fn) == call # <<>> /\ call[1].fn = fn /\ ret = <<>>

call_increase_risk ==
    /\ Pending("_increase_risk")
    /\ ret' = <<increase_risk(call[1].current_risk, call[1].levels)>>
    /\ UNCHANGED <<lists, REASONS, call, th, responses, ncalls>>

call_assess_non_homeowner ==
    /\ Pending("_assess_non_homeowner")
    /\ ret' = <<assess_non_homeowner(call[1].buyer_data)>>
    /\ UNCHANGED <<lists, REASONS, call, th, responses, ncalls>>

\* the reasons go to the list REASONS names
call_assess_homeowner ==
    /\ Pending("_assess_homeowner")
    /\ \E r \in {assess_homeowner(call[1].buyer_data)} :
           /\ ret' = <<r>>
           /\ lists' = append_all(Engine, r.appended).lists
    /\ UNCHANGED <<REASONS, call, th, responses, ncalls>>

call_apply_general_checks ==
    /\ Pending("_apply_general_checks")
    /\ \E r \in {apply_general_checks(call[1].buyer_data, Frame(call[1].current_risk))} :
           /\ ret' = <<r>>
           /\ lists' = append_all(Engine, r.appended).lists
    /\ UNCHANGED <<REASONS, call, th, responses, ncalls>>

InitCall(S) == InitCommon /\ ncalls = 0 /\ \E c \in S : call = <<c>>

SpecLadder == InitCall(LadderCalls) /\ [][call_increase_risk]_vars

SpecNonOwner ==
    /\ InitCall([fn : {"_assess_non_homeowner"}, buyer_data : NonOwnerProfiles])
    /\ [][call_assess_non_homeowner]_vars

SpecOwner ==
    /\ InitCall([fn : {"_assess_homeowner"}, buyer_data : OwnerProfiles])
    /\ [][call_assess_homeowner]_vars

SpecGeneral ==
    /\ InitCall([fn : {"_apply_general_checks"}, buyer_data : GeneralProfiles,
                 current_risk : Tiers])
    /\ [][call_apply_general_checks]_vars

(***************************************************************************)
(* The handler as the event loop runs it: assess_risk has no await, so a   *)
(* request is served from its first statement to its return in one step.   *)
(***************************************************************************)
Receive ==
    /\ call = <<>>
    /\ ncalls < MaxCalls
    /\ \A t \in Threads : th[t].pc = "idle"
    /\ \E p \in ServedProfiles : call' = <<[fn |-> "assess_risk", buyer_data |-> p]>>
    /\ ncalls' = ncalls + 1
    /\ UNCHANGED <<lists, REASONS, ret, th, responses>>

assess_risk ==
    /\ call # <<>> /\ call[1].fn = "assess_risk"
    /\ \E out \in {run_assess_risk(Engine, call[1].buyer_data)} :
        /\ lists' = out.eng.lists
        /\ REASONS' = out.eng.REASONS
        /\ responses' = Append(responses,
                               [request |-> call[1].buyer_data, body |-> out.body])
    /\ call' = <<>>
    /\ UNCHANGED <<ret, th, ncalls>>

\* one request to a newly started server
SpecEval ==
    /\ InitCall([fn : {"assess_risk"}, buyer_data : EvalProfiles])
    /\ [][assess_risk]_vars

InitServer == InitCommon /\ call = <<>> /\ ncalls = 0

NextSeq == Receive \/ assess_risk

\* requests served one after another by the long-lived engine
SpecSeq == InitServer /\ [][NextSeq]_vars

(***************************************************************************)
(* Callers that share the engine and run assess_buyer_risk at the same     *)
(* time (one per thread): a step is the rebinding of REASONS, one append   *)
(* to the list REASONS names, the construction of the result, or the       *)
(* handler's return.  Tier, actions and risk factors are locals of the     *)
(* call.                                                                   *)
(***************************************************************************)
\* the call starts: args holds the profile and what assess_buyer_risk makes
\* of it (the call's locals, which no other caller touches)
Start(t) ==
    /\ th[t].pc = "idle"
    /\ call = <<>>
    /\ ncalls < MaxCalls
    /\ \E p \in ServedProfiles :
         th' = [th EXCEPT ![t] = [pc |-> "reset", args |-> <<p, assess_buyer_risk(p)>>,
                                  k |-> 0]]
    /\ ncalls' = ncalls + 1
    /\ UNCHANGED <<lists, REASONS, call, ret, responses>>

\* line 100
Reset(t) ==
    /\ th[t].pc = "reset"
    /\ \E e \in {reset_reasons(Engine)} :
        /\ lists' = e.lists
        /\ REASONS' = e.REASONS
    /\ th' = [th EXCEPT ![t].pc = "run", ![t].k = 1]
    /\ UNCHANGED <<call, ret, responses, ncalls>>

\* the next self.REASONS.append of the call
AppendStep(t) ==
    /\ th[t].pc = "run"
    /\ th[t].k <= Len(th[t].args[2].appended)
    /\ lists' = append_reason(Engine, th[t].args[2].appended[th[t].k]).lists
    /\ th' = [th EXCEPT ![t].k = @ + 1]
    /\ UNCHANGED <<REASONS, call, ret, responses, ncalls>>

\* lines 113-118: the result is built and holds the list that REASONS names
\* now; the caller keeps it while it prints it (line 476)
Result(t) ==
    /\ th[t].pc = "run"
    /\ th[t].k > Len(th[t].args[2].appended)
    /\ th[t].args[2].exc = NoExc
    /\ th' = [th EXCEPT ![t].pc = "print", ![t].args = Append(@, REASONS)]
    /\ UNCHANGED <<lists, REASONS, call, ret, responses, ncalls>>

\* lines 478-485: the handler returns the body, after the print during which
\* other callers ran
Return(t) ==
    /\ th[t].pc = "print"
    /\ responses' = Append(responses,
           [request |-> th[t].args[1],
            body |-> response_body(th[t].args[2], th[t].args[3])])
    /\ th' = [th EXCEPT ![t] = Idle]
    /\ UNCHANGED <<lists, REASONS, call, ret, ncalls>>

\* lines 486-491: the exception leaves assess_buyer_risk and is caught by the
\* handler, which returns the error body
Raise(t) ==
    /\ th[t].pc = "run"
    /\ th[t].k > Len(th[t].args[2].appended)
    /\ th[t].args[2].exc # NoExc
    /\ responses' = Append(responses,
           [request |-> th[t].args[1],
            body |-> response_body(th[t].args[2], REASONS)])
    /\ th' = [th EXCEPT ![t] = Idle]
    /\ UNCHANGED <<lists, REASONS, call, ret, ncalls>>

Init == InitServer

Next ==
    \E t \in Threads :
        Start(t) \/ Reset(t) \/ AppendStep(t) \/ Result(t) \/ Return(t) \/ Raise(t)

Spec == Init /\ [][Next]_vars

(***************************************************************************)
(* Properties.                                                             *)
(***************************************************************************)
\* position in the ladder [VeryLow, Low, Medium, High, VeryHigh], from 0;
\* NoRisk, which is not in the ladder, is placed below it
LadderPos(t) ==
    CASE t = VERY_LOW -> 0 [] t = LOW -> 1 [] t = MEDIUM -> 2
      [] t = HIGH -> 3 [] t = VERY_HIGH -> 4 [] OTHER -> -1

LadderTier(i) ==
    CASE i = 0 -> VERY_LOW [] i = 1 -> LOW [] i = 2 -> MEDIUM
      [] i = 3 -> HIGH [] OTHER -> VERY_HIGH

\* escalate(t, n) as the specification defines it
Escalated(t, n) ==
    IF t = NO_RISK THEN NO_RISK ELSE LadderTier(Min(LadderPos(t) + n, 4))

Last(s) == s[Len(s)]

\* C1: escalate(t, n) is the ladder tier at index min(index(t)+n, 4) for
\* every ladder tier t and n >= 0: never below t, non-decreasing in n,
\* VeryHigh once index(t)+n >= 4; escalate(NoRisk, n) = NoRisk.
C1_Escalate ==
    ret # <<>> =>
        LET t == call[1].current_risk
            n == call[1].levels
            r == ret[1]
        IN  /\ t = NO_RISK => r = NO_RISK
            /\ t # NO_RISK =>
                /\ r = LadderTier(Min(LadderPos(t) + n, 4))
                /\ LadderPos(r) >= LadderPos(t)
                /\ LadderPos(t) + n >= 4 => r = VERY_HIGH
                /\ \A m \in 0..n : LadderPos(increase_risk(t, m)) <= LadderPos(r)

\* Medium escalated by five steps has saturated at VeryHigh
C1_Witness ==
    /\ ret = <<VERY_HIGH>>
    /\ call[1].current_risk = MEDIUM
    /\ call[1].levels = 5

\* C2 (as claimed): with the steps of concurrent evaluations interleaved,
\* every verdict's reasons list holds exactly the reasons of its own
\* profile, in order, as when run alone.
C2_OwnReasons ==
    \A i \in 1..Len(responses) :
        responses[i].body.success =>
            lists[responses[i].body.risk_assessment[1].reasons]
                = assess_buyer_risk(responses[i].request).appended

NameMismatchIdAps(p)  == p.PURCHASER_NAME_FROM_APS # p.PURCHASER_NAME_FROM_ID
NameMismatchApsHs(p)  == p.PURCHASER_NAME_FROM_APS # p.PURCHASER_NAME_FROM_HOUSESIGMA
NameMismatchIdHs(p)   == p.PURCHASER_NAME_FROM_ID # p.PURCHASER_NAME_FROM_HOUSESIGMA
AddrMismatchIdAps(p)  == p.PURCHASER_ADDRESS_FROM_ID # p.PURCHASER_ADDRESS_FROM_APS
AddrNotInRegistry(p)  ==
    \A j \in 1..Len(p.PURCHASER_ADDRESS_LIST_FROM_LANDREGISTRY) :
        p.PURCHASER_ADDRESS_LIST_FROM_LANDREGISTRY[j] # p.PURCHASER_ADDRESS_FROM_APS

\* C3: whenever evaluation returns a verdict and one of the five mismatch
\* rules holds, the verdict's tier is VeryHigh, for each rule by itself.
C3_MismatchVeryHigh ==
    \A i \in 1..Len(responses) :
        LET p == responses[i].request
            b == responses[i].body
            vh == b.risk_assessment[1].risk_level = VERY_HIGH
        IN  b.success =>
                /\ NameMismatchIdAps(p) => vh
                /\ NameMismatchApsHs(p) => vh
                /\ NameMismatchIdHs(p) => vh
                /\ AddrMismatchIdAps(p) => vh
                /\ AddrNotInRegistry(p) => vh

\* the ID address differs from the agreement address and no other mismatch
\* rule holds; the owner branch produced Low; the verdict is VeryHigh
C3_Witness ==
    /\ Len(responses) = 1
    /\ LET p == responses[1].request
           b == responses[1].body
       IN  /\ b.success
           /\ AddrMismatchIdAps(p)
           /\ ~NameMismatchIdAps(p) /\ ~NameMismatchApsHs(p) /\ ~NameMismatchIdHs(p)
           /\ ~AddrNotInRegistry(p)
           /\ assess_homeowner(p).risk_level = LOW
           /\ b.risk_assessment[1].risk_level = VERY_HIGH

\* one of the three source lists is non-empty
OwnsSomething(p) ==
    \/ Len(p.PRIMARY_RESIDENCE_TITLE_NAMES) > 0
    \/ Len(p.PURCHASER_ADDRESS_LIST_FROM_LANDREGISTRY) > 0
    \/ \E j \in 1..Len(p.CO_SIGNER_LIST_FROM_APS) :
           Len(p.CO_SIGNER_LIST_FROM_APS[j].CO_SIGNER_ADDRESS_LIST_FROM_LANDREGISTRY) > 0

\* C4: the ownership classifier is true iff the title-holder list, the
\* buyer's land-registry list or some co-signer's land-registry list is
\* non-empty, and the evaluation takes the owner branch exactly then (the
\* ownership label of the verdict is the classifier's value; the last
\* suggested action is the one the branch taken always appends).
C4_Ownership ==
    \A i \in 1..Len(responses) :
        LET p == responses[i].request
            b == responses[i].body
            v == b.risk_assessment[1]
        IN  b.success =>
                /\ v.risk_factors[1] = "Existing property owner" <=> OwnsSomething(p)
                /\ v.risk_factors[1] = "First-time homebuyer" <=> ~OwnsSomething(p)
                /\ Last(v.suggested_actions) = "Verify property ownership and equity"
                       <=> OwnsSomething(p)
                /\ Last(v.suggested_actions) = "Request 25% downpayment proof"
                       <=> ~OwnsSomething(p)

\* only the second co-signer owns property, and the owner branch ran
C4_Witness ==
    /\ Len(responses) = 1
    /\ LET p == responses[1].request
           b == responses[1].body
       IN  /\ b.success
           /\ p.PRIMARY_RESIDENCE_TITLE_NAMES = <<>>
           /\ p.PURCHASER_ADDRESS_LIST_FROM_LANDREGISTRY = <<>>
           /\ Len(p.CO_SIGNER_LIST_FROM_APS) = 2
           /\ b.risk_assessment[1].risk_factors[1] = "Existing property owner"
           /\ Last(b.risk_assessment[1].suggested_actions)
                  = "Verify property ownership and equity"

\* no high-risk override condition of the non-owner branch holds
NoOverride(p) ==
    /\ p.DISTANCE <= 75
    /\ p.OTHER_DEPOSIT_PAID_NAME_LIST_FROM_APS = <<p.PURCHASER_NAME_FROM_APS>>
    /\ Len(p.MORTGAGE_APPROVAL_NAMES) <= 1
    /\ \E j \in 1..Len(p.MORTGAGE_APPROVAL_NAMES) :
           p.MORTGAGE_APPROVAL_NAMES[j] = p.PURCHASER_NAME_FROM_APS
    /\ p.PURCHASER_AGE_FROM_ID = 0
         \/ (p.PURCHASER_AGE_FROM_ID >= 30 /\ p.PURCHASER_AGE_FROM_ID <= 60)
    /\ p.PURCHASER_ADDRESS_FROM_ID = p.PURCHASER_ADDRESS_FROM_APS

\* the price-band table on depositPct = deposit/price*100, 0 when price <= 0
BandTier(price, deposit) ==
    LET above(k) == price > 0 /\ deposit * 100 > k * price IN
    IF price < 800000 /\ above(25) THEN LOW
    ELSE IF price < 800000 /\ above(15) THEN MEDIUM
    ELSE IF 800000 <= price /\ price <= 1000000 /\ above(20) THEN MEDIUM
    ELSE IF price > 1000000 /\ above(25) THEN MEDIUM
    ELSE NO_RISK

\* C5: for a non-owner with no override condition and a false related-party
\* predicate, the non-owner branch returns the tier of the price-band table;
\* 700,000 with deposit 200,000 gives Low, with deposit 50,000 NoRisk.
C5_PriceBands ==
    ret # <<>> =>
        LET p == call[1].buyer_data
            r == ret[1]
        IN  (r.exc = NoExc /\ NoOverride(p) /\ ~has_related_parties_not_on_aps(p).val) =>
                /\ r.risk_level = BandTier(p.PROPERTY_PRICE, p.PURCHASER_DEPOSIT_PAID_FROM_APS)
                /\ (p.PROPERTY_PRICE = 700000 /\ p.PURCHASER_DEPOSIT_PAID_FROM_APS = 200000)
                       => r.risk_level = LOW
                /\ (p.PROPERTY_PRICE = 700000 /\ p.PURCHASER_DEPOSIT_PAID_FROM_APS = 50000)
                       => r.risk_level = NO_RISK

\* 700,000 with a deposit of 200,000 (28.6%), no override: Low
C5_Witness ==
    /\ ret # <<>>
    /\ ret[1].exc = NoExc
    /\ NoOverride(call[1].buyer_data)
    /\ call[1].buyer_data.PROPERTY_PRICE = 700000
    /\ call[1].buyer_data.PURCHASER_DEPOSIT_PAID_FROM_APS = 200000
    /\ ret[1].risk_level = LOW

\* the value-ratio tier modified by the equity rule, with its reason
EquityOutcome(price, home_value, equity) ==
    LET ratio == IF 4 * home_value >= 3 * price THEN LOW
                 ELSE IF 5 * home_value >= 3 * price THEN MEDIUM
                 ELSE HIGH
    IN  IF equity * 100 < 5 * price
        THEN [tier |-> VERY_HIGH, reasons |-> <<"Very low equity (<5%)">>]
        ELSE IF equity * 100 < 15 * price
        THEN [tier |-> Escalated(ratio, 2), reasons |-> <<"Low equity (5-15%)">>]
        ELSE IF equity * 100 < 25 * price
        THEN [tier |-> Escalated(ratio, 1), reasons |-> <<"Moderate equity (15-25%)">>]
        ELSE [tier |-> ratio, reasons |-> <<>>]

\* C6: for an owner with price > 0 and neither the related-party nor the
\* missing-co-owner predicate, the owner branch returns the value-ratio tier
\* modified by the equity rule and records the matching equity reason;
\* 800,000 / 650,000 / 50,000 gives High with "Low equity (5-15%)".
C6_OwnerEquity ==
    ret # <<>> =>
        LET p == call[1].buyer_data
            r == ret[1]
            e == EquityOutcome(p.PROPERTY_PRICE, p.PRIMARY_RESIDENCE_VALUE_FROM_AVM,
                               p.PRIMARY_RESIDENCE_EQUITY)
        IN  (/\ r.exc = NoExc
             /\ p.PROPERTY_PRICE > 0
             /\ ~has_related_parties_not_on_aps(p).val
             /\ ~is_missing_coowner_on_aps(p)) =>
                /\ r.risk_level = e.tier
                /\ lists[REASONS] = e.reasons
                /\ (/\ p.PROPERTY_PRICE = 800000
                    /\ p.PRIMARY_RESIDENCE_VALUE_FROM_AVM = 650000
                    /\ p.PRIMARY_RESIDENCE_EQUITY = 50000) =>
                       /\ r.risk_level = HIGH
                       /\ In("Low equity (5-15%)", lists[REASONS])

\* 800,000 / 650,000 / 50,000: High, reason recorded
C6_Witness ==
    /\ ret # <<>>
    /\ ret[1].exc = NoExc
    /\ call[1].buyer_data.PROPERTY_PRICE = 800000
    /\ call[1].buyer_data.PRIMARY_RESIDENCE_VALUE_FROM_AVM = 650000
    /\ call[1].buyer_data.PRIMARY_RESIDENCE_EQUITY = 50000
    /\ ~is_missing_coowner_on_aps(call[1].buyer_data)
    /\ ret[1].risk_level = HIGH
    /\ lists[REASONS] = <<"Low equity (5-15%)">>

\* C7 (as claimed): for every profile whose price is exactly 0 the Risk
\* Factor Reporter's zero-price (division) error ends the evaluation, and
\* the endpoint returns success=false with that error's message.
C7_ZeroPriceError ==
    \A i \in 1..Len(responses) :
        responses[i].request.PROPERTY_PRICE = 0 =>
            /\ ~responses[i].body.success
            /\ responses[i].body.error = <<error_message("ZeroDivisionError")>>

\* C8: each verdict of a sequence of non-overlapping evaluations on the
\* long-lived engine, as read in any later state, equals the verdict a
\* freshly created engine returns for the same profile.
C8_AsFresh ==
    \A i \in 1..Len(responses) :
        LET fresh == run_assess_risk(InitEngine, responses[i].request) IN
        view(responses[i].body, lists) = view(fresh.body, fresh.eng.lists)

\* a call that failed part-way after appending a reason, then a verdict
\* with other reasons, then a third call, were served by the same engine
C8_Witness ==
    /\ Len(responses) = 3
    /\ ~responses[1].body.success
    /\ lists[2] # <<>>
    /\ responses[2].body.success
    /\ lists[responses[2].body.risk_assessment[1].reasons] # <<>>
    /\ lists[responses[2].body.risk_assessment[1].reasons] # lists[2]
    /\ responses[3].body.success
    /\ lists[responses[3].body.risk_assessment[1].reasons]
           # lists[responses[2].body.risk_assessment[1].reasons]

ForceRule(p) ==
    \/ NameMismatchIdAps(p) \/ NameMismatchApsHs(p) \/ NameMismatchIdHs(p)
    \/ AddrMismatchIdAps(p) \/ AddrNotInRegistry(p)
    \/ p.OTHER_DEPOSIT_PAID_NAME_LIST_FROM_APS # <<p.PURCHASER_NAME_FROM_APS>>

B2N(b) == IF b THEN 1 ELSE 0

\* the number of escalation rules that hold
EscalationCount(p) ==
    B2N(p.DISTANCE > 75)
    + B2N(Len(p.MORTGAGE_APPROVAL_NAMES) > 1
          \/ \A j \in 1..Len(p.MORTGAGE_APPROVAL_NAMES) :
                 p.MORTGAGE_APPROVAL_NAMES[j] # p.PURCHASER_NAME_FROM_APS)
    + B2N(p.PURCHASER_AGE_FROM_ID # 0
          /\ (p.PURCHASER_AGE_FROM_ID < 30 \/ p.PURCHASER_AGE_FROM_ID > 60))
    + B2N(Len(p.PURCHASER_ALL_PROPERTIES_VALUE_FROM_AVM) > 1)

\* C9: when no force-set rule fires, the general rule pass returns its input
\* tier escalated by one ladder step per escalation rule that holds, capped
\* at VeryHigh (an input of NoRisk, outside the ladder, is returned as is);
\* the pass never returns a tier lower than its input.
C9_GeneralEscalation ==
    ret # <<>> =>
        LET p == call[1].buyer_data
            t == call[1].current_risk
            r == ret[1]
        IN  /\ ~ForceRule(p) => r.risk_level = Escalated(t, EscalationCount(p))
            /\ LadderPos(r.risk_level) >= LadderPos(t)

\* three escalation rules and no force-set rule: Very Low became High
C9_Witness ==
    /\ ret # <<>>
    /\ ~ForceRule(call[1].buyer_data)
    /\ EscalationCount(call[1].buyer_data) = 3
    /\ call[1].current_risk = VERY_LOW
    /\ ret[1].risk_level = HIGH

\* C10 (as claimed): every schema-valid profile whose price is not zero is
\* evaluated to a verdict.
C10_OnlyZeroPriceFails ==
    \A i \in 1..Len(responses) :
        responses[i].request.PROPERTY_PRICE # 0 => responses[i].body.success

\* C11: every verdict for a profile classified as non-owner has the tier
\* VeryHigh and the reason "Address in APS not found in LAND REGISTRY -
\* empty"; the tier of the non-owner branch (NoRisk, Low, Medium or High)
\* is never the final tier; no verdict carries NoRisk or VeryLow.
C11_NonOwnerVeryHigh ==
    \A i \in 1..Len(responses) :
        LET p == responses[i].request
            b == responses[i].body
            v == b.risk_assessment[1]
        IN  b.success =>
                /\ v.risk_level \notin {NO_RISK, VERY_LOW}
                /\ v.risk_factors[1] = "First-time homebuyer" =>
                    /\ p.PURCHASER_ADDRESS_LIST_FROM_LANDREGISTRY = <<>>
                    /\ v.risk_level = VERY_HIGH
                    /\ In("Address in APS not found in LAND REGISTRY - empty",
                          lists[v.reasons])
                    /\ assess_non_homeowner(p).risk_level \in {NO_RISK, LOW, MEDIUM, HIGH}
                    /\ assess_non_homeowner(p).risk_level # v.risk_level

\* a non-owner on whom no other rule fires: the branch computed NoRisk, the
\* verdict is VeryHigh with the land registry reason as its only reason
C11_Witness ==
    /\ Len(responses) = 1
    /\ LET p == responses[1].request
           b == responses[1].body
       IN  /\ b.success
           /\ b.risk_assessment[1].risk_factors[1] = "First-time homebuyer"
           /\ assess_non_homeowner(p).risk_level = NO_RISK
           /\ b.risk_assessment[1].risk_level = VERY_HIGH
           /\ lists[b.risk_assessment[1].reasons]
                  = <<"Address in APS not found in LAND REGISTRY - empty">>

====
